---- MODULE Spec2Model ----
(***************************************************************************)
(* A model of the noteful REST API: the user-registration handler          *)
(* (src/routes/users.js) and the notes router (src/unnamed/part_000).      *)
(*                                                                         *)
(* Every request is handled in steps that follow the handler's code: the   *)
(* synchronous part of the handler runs as one step, and every data-store  *)
(* operation the handler waits for is a step of its own (together with the *)
(* promise callbacks that run on its result), so that the data-store       *)
(* operations of concurrent requests interleave.                           *)
(*                                                                         *)
(* SpecUsers is the users router, Spec the notes router from an empty Note *)
(* collection, SpecSearch the notes router's GET / beside writes, from a   *)
(* collection that holds a note of each user.                              *)
(***************************************************************************)
EXTENDS Integers, Sequences, FiniteSets, TLC

VARIABLES
    users,      \* the User collection: a set of user documents
    ureq,       \* registration request -> its body (a record of JS values)
    upc,        \* registration request -> where its handler stands
    usignals,   \* registration request -> the outcomes signalled, in order
    ucalls,     \* registration request -> the User operations it invoked
    notes,      \* the Note collection: note id -> document
    createdBy,  \* note id -> the user whose POST created it (history)
    clock,      \* the data store's clock, for updatedAt
    nreq,       \* notes request -> the request (method, token, params, query, body)
    npc,        \* notes request -> where its handling stands
    nsignals,   \* notes request -> the outcomes signalled, in order
    ncalls,     \* notes request -> the handler entry and data-store operations run for it
    nresult     \* notes request -> the documents its response carries

uvars == <<users, ureq, upc, usignals, ucalls>>
nvars == <<notes, createdBy, clock, nreq, npc, nsignals, ncalls, nresult>>
vars == <<users, ureq, upc, usignals, ucalls,
          notes, createdBy, clock, nreq, npc, nsignals, ncalls, nresult>>

-----------------------------------------------------------------------------
(* Bounds *)

\* registration requests in one run (all of them may be in flight at once)
NumUserReqs == 2

\* notes requests in one run (all of them may be in flight at once)
NumNoteReqs == 2

UserReqs == 1..NumUserReqs
NoteReqs == 1..NumNoteReqs

-----------------------------------------------------------------------------
(* JavaScript values and strings.  A string is a sequence of characters.   *)

Undefined == [t |-> "undefined"]
Null == [t |-> "null"]
Num(n) == [t |-> "number", n |-> n]
Str(s) == [t |-> "string", s |-> s]

IsString(v) == v.t = "string"

Rep(c, n) == [i \in 1..n |-> c]

IsSpace(c) == c = " "

RECURSIVE TrimStart(_)
TrimStart(s) ==
    IF s # <<>> /\ IsSpace(Head(s)) THEN TrimStart(Tail(s)) ELSE s

RECURSIVE TrimEnd(_)
TrimEnd(s) ==
    IF s # <<>> /\ IsSpace(s[Len(s)]) THEN TrimEnd(SubSeq(s, 1, Len(s) - 1)) ELSE s

\* String.prototype.trim
Trim(s) == TrimEnd(TrimStart(s))

\* Array.prototype.find: the first element of list that passes the test (given
\* as the set of the elements passing it); Undefined when there is none
RECURSIVE Find(_, _)
Find(list, passing) ==
    IF list = <<>> THEN Undefined
    ELSE IF Head(list) \in passing THEN [t |-> "name", name |-> Head(list)]
    ELSE Find(Tail(list), passing)

\* JavaScript truthiness of the values used here
Truthy(v) ==
    CASE v.t = "undefined" -> FALSE
      [] v.t = "null" -> FALSE
      [] v.t = "string" -> v.s # <<>>
      [] v.t = "number" -> v.n # 0
      [] OTHER -> TRUE

-----------------------------------------------------------------------------
(* POST /users (src/routes/users.js)                                        *)

\* a field the request body does not hold
Absent == [t |-> "absent"]

\* field in req.body
HasField(body, field) == body[field] # Absent

\* the sizes of sizedFields
UsernameMin == 1
PasswordMin == 8
PasswordMax == 72

requiredFields == <<"username", "password">>
stringFields == <<"username", "password", "fullname">>
explicitlyTrimmedFields == <<"username", "password">>
sizedFieldNames == <<"username", "password">>

missingField(body) ==
    Find(requiredFields, {f \in {"username", "password"} : ~HasField(body, f)})

nonStringFields(body) ==
    Find(stringFields,
         {f \in {"username", "password", "fullname"} :
             HasField(body, f) /\ ~IsString(body[f])})

\* a variant of nonTrimmedFields that looks at the username alone
nonTrimmedFieldsUsernameOnly(body) ==
    Find(<<"username">>, {f \in {"username"} : Trim(body[f].s) # body[f].s})

\* evaluated only on bodies whose username and password are strings
nonTrimmedFields(body) ==
    Find(explicitlyTrimmedFields,
         {f \in {"username", "password"} : Trim(body[f].s) # body[f].s})

HasMin(field) == field \in {"username", "password"}
HasMax(field) == field = "password"
MinOf(field) == IF field = "username" THEN UsernameMin ELSE PasswordMin
MaxOf(field) == PasswordMax

tooSmallFields(body) ==
    Find(sizedFieldNames,
         {f \in {"username", "password"} :
             HasMin(f) /\ Len(Trim(body[f].s)) < MinOf(f)})

\* the comparison is the code's: "<", not ">"
tooLargeFields(body) ==
    Find(sizedFieldNames,
         {f \in {"username", "password"} :
             HasMax(f) /\ Len(Trim(body[f].s)) < MaxOf(f)})

\* What the synchronous checks of the handler pass on to next(): the status of
\* the error, or 0 when the handler goes on to the uniqueness lookup.  The
\* size checks build a message in a block-local constant and neither call
\* next() nor return, so they pass nothing on.
ValidationStatus(body) ==
    IF Truthy(missingField(body)) THEN 422
    ELSE IF Truthy(nonStringFields(body)) THEN 422
    ELSE IF Truthy(nonTrimmedFields(body)) THEN 422
    ELSE IF Truthy(tooSmallFields(body)) \/ Truthy(tooLargeFields(body)) THEN 0
    ELSE 0

\* User.hashPassword: bcrypt reads at most the first 72 characters
hashPassword(password) ==
    [bcrypt |-> SubSeq(password, 1, IF Len(password) < 72 THEN Len(password) ELSE 72)]

\* the unique index on User.username refuses a second document with a username
UniqueIndexRefuses(coll, username) == \E u \in coll : u.username = username

\* User.find({username}).count()
CountUsers(coll, username) == Cardinality({u \in coll : u.username = username})

\* an outcome: a call of next (with an error of a status, 0 when the error
\* carries none; "none" for next() without an error) or a response sent
NextErr(status) == [via |-> "next", err |-> TRUE, status |-> status]
NextPlain == [via |-> "next", err |-> FALSE, status |-> 0]
Response(status) == [via |-> "res", err |-> FALSE, status |-> status]

\* the strings of the bodies tried
A(n) == Rep("a", n)
UsernameValues ==
    {Absent, Num(7), Str(<<>>), Str(<<"a">>), Str(<<"b">>), Str(<<" ", "a">>)}
PasswordValues ==
    {Absent, Num(7), Str(A(PasswordMin - 1)), Str(A(PasswordMin)),
     Str(A(PasswordMin) \o <<" ">>), Str(A(PasswordMax + 1))}
FullnameValues == {Absent, Num(7), Str(<<" ", "x", " ">>)}

\* a body with nothing unusual about the field
PlainField(body, field) ==
    CASE field = "username" -> body[field] \in {Str(<<"a">>), Str(<<"b">>)}
      [] field = "password" -> body[field] = Str(A(PasswordMin))
      [] OTHER -> body[field] \in {Absent, Str(<<" ", "x", " ">>)}

\* the request bodies: at most one field is unusual, or username and password
\* both are
UserBodies ==
    {b \in [username : UsernameValues, password : PasswordValues,
            fullname : FullnameValues] :
        \/ Cardinality({f \in {"username", "password", "fullname"} :
                            ~PlainField(b, f)}) <= 1
        \/ /\ b.fullname = Absent
           /\ b.username \in {Absent, Num(7), Str(<<" ", "a">>)}
           /\ b.password \in {Absent, Num(7), Str(A(PasswordMin) \o <<" ">>)}}

NoBody == [username |-> Absent, password |-> Absent, fullname |-> Absent]

\* router.post('/users'), its synchronous part: the checks, then the lookup
\* is issued
PostUsers(r, body) ==
    /\ upc[r] = "idle"
    /\ ureq' = [ureq EXCEPT ![r] = body]
    /\ IF ValidationStatus(body) # 0
       THEN /\ usignals' = [usignals EXCEPT ![r] = Append(@, NextErr(ValidationStatus(body)))]
            /\ upc' = [upc EXCEPT ![r] = "done"]
            /\ UNCHANGED ucalls
       ELSE /\ upc' = [upc EXCEPT ![r] = "counting"]
            /\ ucalls' = [ucalls EXCEPT ![r] = @ \cup {"User.find"}]
            /\ UNCHANGED usignals
    /\ UNCHANGED users
    /\ UNCHANGED nvars

\* User.find({username}).count() runs, and its callback: the duplicate is
\* rejected, caught and answered, or the password is handed to hashPassword
UserCountStep(r) ==
    /\ upc[r] = "counting"
    /\ IF CountUsers(users, ureq[r].username) > 0
       THEN /\ usignals' = [usignals EXCEPT ![r] = Append(@, Response(422))]
            /\ upc' = [upc EXCEPT ![r] = "done"]
       ELSE /\ upc' = [upc EXCEPT ![r] = "creating"]
            /\ UNCHANGED usignals
    /\ UNCHANGED <<users, ureq, ucalls>>
    /\ UNCHANGED nvars

\* the digest arrives, User.create runs, and the response or the error
\* follows.  The full name is stored as sent: the result of fullname.trim() is
\* dropped.  An error of User.create has no reason 'ValidationError' and goes
\* to next(err) as it is, without a status.
UserCreateStep(r) ==
    /\ upc[r] = "creating"
    /\ ucalls' = [ucalls EXCEPT ![r] = @ \cup {"User.create"}]
    /\ IF UniqueIndexRefuses(users, ureq[r].username)
       THEN /\ usignals' = [usignals EXCEPT ![r] = Append(@, NextErr(0))]
            /\ UNCHANGED users
       ELSE /\ users' = users \cup
                    {[id |-> r, username |-> ureq[r].username,
                      password |-> hashPassword(ureq[r].password.s),
                      fullname |-> IF ureq[r].fullname = Absent
                                   THEN Undefined ELSE ureq[r].fullname]}
            /\ usignals' = [usignals EXCEPT ![r] = Append(@, Response(201))]
    /\ upc' = [upc EXCEPT ![r] = "done"]
    /\ UNCHANGED ureq
    /\ UNCHANGED nvars

UsersInit ==
    /\ users = {}
    /\ ureq = [r \in UserReqs |-> NoBody]
    /\ upc = [r \in UserReqs |-> "idle"]
    /\ usignals = [r \in UserReqs |-> <<>>]
    /\ ucalls = [r \in UserReqs |-> {}]

-----------------------------------------------------------------------------
(* The notes router (src/unnamed/part_000): the collections                 *)

UserIds == {"uA", "uB"}

\* an id that is no ObjectId
BadId == "BAD"

\* mongoose.Types.ObjectId.isValid
IsValidId(id) == id # BadId

\* a JS string holding an id
IdVal(id) == [t |-> "id", id |-> id]

\* the Folder and Tag collections; the notes router only reads them.  "fX" and
\* "tX" are well-formed ids of no document.
Folders == {[id |-> "fA", userId |-> "uA"], [id |-> "fB", userId |-> "uB"]}
Tags == {[id |-> "tA", userId |-> "uA"], [id |-> "tB", userId |-> "uB"]}

\* the id the data store gives the i-th note created
NoteIdOf(i) == "n" \o ToString(i)

Range(seq) == {seq[i] : i \in 1..Len(seq)}

\* a variant of FolderFindOne that leaves userId out of the query
FolderFindOneAnyUser(folderId, userId) ==
    {f \in Folders : f.id = folderId}

\* Folder.findOne({_id: folderId, userId})
FolderFindOne(folderId, userId) ==
    {f \in Folders : f.id = folderId /\ f.userId = userId}

\* a variant of TagFind that leaves userId out of the query
TagFindAnyUser(tags, userId) ==
    {t \in Tags : t.id \in Range(tags)}

\* Tag.find({$and: [{_id: {$in: tags}, userId}]})
TagFind(tags, userId) ==
    {t \in Tags : t.id \in Range(tags) /\ t.userId = userId}

\* validateFolderId: the set of its rejections (empty when it resolves)
validateFolderId(folderId, userId) ==
    IF ~Truthy(folderId) THEN {}
    ELSE IF FolderFindOne(folderId.id, userId) = {} THEN {"InvalidFolder"}
    ELSE {}

\* validateTagIds: the set of its rejections (empty when it resolves).  The
\* query casts every id of $in, and an id that is no ObjectId fails the cast.
validateTagIds(tags, userId) ==
    IF Len(tags) = 0 THEN {}
    ELSE IF \E i \in 1..Len(tags) : ~IsValidId(tags[i]) THEN {"CastError"}
    ELSE IF Len(tags) # Cardinality(TagFind(tags, userId)) THEN {"InvalidTag"}
    ELSE {}

\* the data-store reads the two validators issue
ValidatorCalls(folderId, tags) ==
    <<"validateFolderId">> \o
    (IF Truthy(folderId) THEN <<"Folder.findOne">> ELSE <<>>) \o
    <<"validateTagIds">> \o
    (IF Len(tags) # 0 THEN <<"Tag.find">> ELSE <<>>)

\* the catch of POST / and PUT /:id: the status of the error handed to next
CatchStatus(err) ==
    IF err = "InvalidFolder" THEN 400
    ELSE IF err = "InvalidTag" THEN 400
    ELSE 0

\* a value as stored by an update or an insert: undefined is stored as null
Stored(v) == IF v = Undefined THEN Null ELSE v

\* the document that newNote and updateNote ({title, content, folderId, tags,
\* userId}) give, written at the time
NoteDocument(q, time) ==
    [title |-> Stored(q.title), content |-> Stored(q.content),
     folderId |-> Stored(q.folderId), tags |-> q.tags,
     userId |-> q.user, updatedAt |-> time]

\* populate('tags'): the Tag documents of the ids, in order
RECURSIVE Populate(_)
Populate(tags) ==
    IF tags = <<>> THEN <<>>
    ELSE LET found == {t \in Tags : t.id = Head(tags)}
         IN (IF found = {} THEN <<>> ELSE <<CHOOSE t \in found : TRUE>>)
            \o Populate(Tail(tags))

\* a stored note as a response carries it
Doc(coll, id, populate) ==
    [id |-> id, title |-> coll[id].title, content |-> coll[id].content,
     folderId |-> coll[id].folderId,
     tags |-> IF populate THEN Populate(coll[id].tags) ELSE coll[id].tags,
     userId |-> coll[id].userId, updatedAt |-> coll[id].updatedAt]

\* sort({updatedAt: 'desc'}) of the notes of ids
RECURSIVE SortDesc(_, _)
SortDesc(coll, ids) ==
    IF ids = {} THEN <<>>
    ELSE LET top == CHOOSE i \in ids :
                        \A j \in ids : coll[j].updatedAt <= coll[i].updatedAt
         IN <<Doc(coll, top, TRUE)>> \o SortDesc(coll, ids \ {top})

\* case folding of the regular expression's 'i' flag
Lower(c) == CASE c = "A" -> "a" [] c = "B" -> "b" [] OTHER -> c

\* one pattern character against one character: "." matches any character
AtomMatches(p, c) == p = "." \/ Lower(p) = Lower(c)

\* new RegExp(pattern, 'i') finds a match somewhere in the string value v
RegexMatches(pattern, v) ==
    /\ IsString(v)
    /\ \E off \in 0..Len(v.s) :
          /\ off + Len(pattern) <= Len(v.s)
          /\ \A i \in 1..Len(pattern) : AtomMatches(pattern[i], v.s[off + i])

\* a variant of MatchesFilter whose filter starts empty instead of {userId}
MatchesFilterAnyUser(doc, userId, searchTerm, folderId, tagId) ==
    /\ Truthy(searchTerm) =>
          RegexMatches(searchTerm.s, doc.title) \/ RegexMatches(searchTerm.s, doc.content)
    /\ Truthy(folderId) => doc.folderId = folderId
    /\ Truthy(tagId) => tagId.id \in Range(doc.tags)

\* the filter of GET /: userId always, the others when the parameter is truthy
MatchesFilter(doc, userId, searchTerm, folderId, tagId) ==
    /\ doc.userId = userId
    /\ Truthy(searchTerm) =>
          RegexMatches(searchTerm.s, doc.title) \/ RegexMatches(searchTerm.s, doc.content)
    /\ Truthy(folderId) => doc.folderId = folderId
    /\ Truthy(tagId) => tagId.id \in Range(doc.tags)

\* Note.find(filter).populate('tags').sort({updatedAt: 'desc'})
NoteFind(coll, userId, searchTerm, folderId, tagId) ==
    SortDesc(coll, {id \in DOMAIN coll :
                      MatchesFilter(coll[id], userId, searchTerm, folderId, tagId)})

\* the cast of the filter fails on an id that is no ObjectId
FilterCastFails(folderId, tagId) ==
    \/ Truthy(folderId) /\ ~IsValidId(folderId.id)
    \/ Truthy(tagId) /\ ~IsValidId(tagId.id)

\* a variant of NoteFindOne that leaves userId out of the query
NoteFindOneAnyUser(coll, id, userId) ==
    {n \in DOMAIN coll : n = id}

\* Note.findOne({_id: id, userId}) and Note.findOneAndRemove({_id: id, userId})
NoteFindOne(coll, id, userId) ==
    {n \in DOMAIN coll : n = id /\ coll[n].userId = userId}

\* Note.findByIdAndUpdate(id, ...): the document the update applies to
NoteFindById(coll, id) ==
    {n \in DOMAIN coll : n = id}

-----------------------------------------------------------------------------
(* The notes router: the requests and the handlers                          *)

\* a request: the method and route, whether its JWT verifies and for whom, the
\* :id parameter, the body's fields (tags defaults to []), the query's
\* parameters
Request(method, token, user, id, title, content, folderId, tags, searchTerm, qFolderId, qTagId) ==
    [method |-> method, token |-> token, user |-> user, id |-> id,
     title |-> title, content |-> content, folderId |-> folderId, tags |-> tags,
     searchTerm |-> searchTerm, qFolderId |-> qFolderId, qTagId |-> qTagId]

NoRequest ==
    Request("none", FALSE, "uA", "", Undefined, Undefined, Undefined, <<>>,
            Undefined, Undefined, Undefined)

\* a variant of AuthPasses that lets every request through
AuthPassesAlways(q) == q.token \/ ~q.token

\* passport.authenticate('jwt', {session: false, failWithError: true})
AuthPasses(q) == q.token

\* what every request that passes authentication has run when its handler starts
Entered == <<"authenticate", "handler">>

\* the ids of tags that are no ObjectIds, in order
RECURSIVE BadIds(_)
BadIds(tags) ==
    IF tags = <<>> THEN <<>>
    ELSE (IF IsValidId(Head(tags)) THEN <<>> ELSE <<Head(tags)>>) \o BadIds(Tail(tags))

\* router.use: a request whose token does not verify goes to next(err), 401
RejectUnauthenticated(r, q) ==
    /\ npc[r] = "idle"
    /\ ~AuthPasses(q)
    /\ nreq' = [nreq EXCEPT ![r] = q]
    /\ ncalls' = [ncalls EXCEPT ![r] = <<"authenticate">>]
    /\ nsignals' = [nsignals EXCEPT ![r] = Append(@, NextErr(401))]
    /\ npc' = [npc EXCEPT ![r] = "done"]
    /\ UNCHANGED <<notes, createdBy, clock, nresult>>
    /\ UNCHANGED uvars

\* router.get('/'): the filter is built and Note.find issued
GetAll(r, q) ==
    /\ npc[r] = "idle"
    /\ AuthPasses(q)
    /\ q.method = "GET /"
    /\ nreq' = [nreq EXCEPT ![r] = q]
    /\ ncalls' = [ncalls EXCEPT ![r] = Entered \o <<"Note.find">>]
    /\ npc' = [npc EXCEPT ![r] = "finding"]
    /\ UNCHANGED <<notes, createdBy, clock, nsignals, nresult>>
    /\ UNCHANGED uvars

\* Note.find runs, then res.json(results) or next(err)
FindStep(r) ==
    /\ npc[r] = "finding"
    /\ IF FilterCastFails(nreq[r].qFolderId, nreq[r].qTagId)
       THEN /\ nsignals' = [nsignals EXCEPT ![r] = Append(@, NextErr(0))]
            /\ UNCHANGED nresult
       ELSE /\ nsignals' = [nsignals EXCEPT ![r] = Append(@, Response(200))]
            /\ nresult' = [nresult EXCEPT ![r] =
                    NoteFind(notes, nreq[r].user, nreq[r].searchTerm,
                             nreq[r].qFolderId, nreq[r].qTagId)]
    /\ npc' = [npc EXCEPT ![r] = "done"]
    /\ UNCHANGED <<notes, createdBy, clock, nreq, ncalls>>
    /\ UNCHANGED uvars

\* router.get('/:id'): the id is checked and Note.findOne issued
GetOne(r, q) ==
    /\ npc[r] = "idle"
    /\ AuthPasses(q)
    /\ q.method = "GET /:id"
    /\ nreq' = [nreq EXCEPT ![r] = q]
    /\ IF ~IsValidId(q.id)
       THEN /\ nsignals' = [nsignals EXCEPT ![r] = Append(@, NextErr(400))]
            /\ ncalls' = [ncalls EXCEPT ![r] = Entered]
            /\ npc' = [npc EXCEPT ![r] = "done"]
       ELSE /\ ncalls' = [ncalls EXCEPT ![r] = Entered \o <<"Note.findOne">>]
            /\ npc' = [npc EXCEPT ![r] = "findingOne"]
            /\ UNCHANGED nsignals
    /\ UNCHANGED <<notes, createdBy, clock, nresult>>
    /\ UNCHANGED uvars

\* Note.findOne runs, then res.json(result) or next()
FindOneStep(r) ==
    /\ npc[r] = "findingOne"
    /\ LET found == NoteFindOne(notes, nreq[r].id, nreq[r].user)
       IN IF found # {}
          THEN /\ nsignals' = [nsignals EXCEPT ![r] = Append(@, Response(200))]
               /\ nresult' = [nresult EXCEPT ![r] = <<Doc(notes, nreq[r].id, TRUE)>>]
          ELSE /\ nsignals' = [nsignals EXCEPT ![r] = Append(@, NextPlain)]
               /\ UNCHANGED nresult
    /\ npc' = [npc EXCEPT ![r] = "done"]
    /\ UNCHANGED <<notes, createdBy, clock, nreq, ncalls>>
    /\ UNCHANGED uvars

\* router.post('/'), its synchronous part.  The return inside tags.forEach
\* leaves the callback only: next(err) is called for every tag id that is no
\* ObjectId, and the handler goes on to the validators.
Post(r, q) ==
    /\ npc[r] = "idle"
    /\ AuthPasses(q)
    /\ q.method = "POST /"
    /\ nreq' = [nreq EXCEPT ![r] = q]
    /\ IF ~Truthy(q.title) \/ (Truthy(q.folderId) /\ ~IsValidId(q.folderId.id))
       THEN /\ nsignals' = [nsignals EXCEPT ![r] = Append(@, NextErr(400))]
            /\ ncalls' = [ncalls EXCEPT ![r] = Entered]
            /\ npc' = [npc EXCEPT ![r] = "done"]
       ELSE /\ nsignals' = [nsignals EXCEPT ![r] =
                    @ \o [i \in 1..Len(BadIds(q.tags)) |-> NextErr(400)]]
            /\ ncalls' = [ncalls EXCEPT ![r] =
                    Entered \o ValidatorCalls(q.folderId, q.tags)]
            /\ npc' = [npc EXCEPT ![r] = "validating"]
    /\ UNCHANGED <<notes, createdBy, clock, nresult>>
    /\ UNCHANGED uvars

\* router.put('/:id'), its synchronous part
Put(r, q) ==
    /\ npc[r] = "idle"
    /\ AuthPasses(q)
    /\ q.method = "PUT /:id"
    /\ nreq' = [nreq EXCEPT ![r] = q]
    /\ IF \/ ~IsValidId(q.id)
          \/ q.title = Str(<<>>)
          \/ Truthy(q.folderId) /\ ~IsValidId(q.folderId.id)
          \/ Len(BadIds(q.tags)) # 0
       THEN /\ nsignals' = [nsignals EXCEPT ![r] = Append(@, NextErr(400))]
            /\ ncalls' = [ncalls EXCEPT ![r] = Entered]
            /\ npc' = [npc EXCEPT ![r] = "done"]
       ELSE /\ ncalls' = [ncalls EXCEPT ![r] =
                    Entered \o ValidatorCalls(q.folderId, q.tags)]
            /\ npc' = [npc EXCEPT ![r] = "validating"]
            /\ UNCHANGED nsignals
    /\ UNCHANGED <<notes, createdBy, clock, nresult>>
    /\ UNCHANGED uvars

\* Promise.all of the two validators settles: the write is issued, or the
\* first rejection reaches the catch and next(err)
ValidateStep(r) ==
    /\ npc[r] = "validating"
    /\ LET rejections == validateFolderId(nreq[r].folderId, nreq[r].user)
                          \cup validateTagIds(nreq[r].tags, nreq[r].user)
       IN IF rejections = {}
          THEN /\ npc' = [npc EXCEPT ![r] =
                       IF nreq[r].method = "POST /" THEN "creating" ELSE "updating"]
               /\ UNCHANGED nsignals
          ELSE /\ \E err \in rejections :
                     nsignals' = [nsignals EXCEPT ![r] =
                                     Append(@, NextErr(CatchStatus(err)))]
               /\ npc' = [npc EXCEPT ![r] = "done"]
    /\ UNCHANGED <<notes, createdBy, clock, nreq, ncalls, nresult>>
    /\ UNCHANGED uvars

\* Note.create(newNote) runs, then the 201 response
CreateStep(r) ==
    /\ npc[r] = "creating"
    /\ LET id == NoteIdOf(Cardinality(DOMAIN createdBy) + 1)
           doc == NoteDocument(nreq[r], clock + 1)
           coll == [n \in DOMAIN notes \cup {id} |-> IF n = id THEN doc ELSE notes[n]]
       IN /\ notes' = coll
          /\ createdBy' = [n \in DOMAIN createdBy \cup {id} |->
                              IF n = id THEN nreq[r].user ELSE createdBy[n]]
          /\ nresult' = [nresult EXCEPT ![r] = <<Doc(coll, id, FALSE)>>]
    /\ clock' = clock + 1
    /\ ncalls' = [ncalls EXCEPT ![r] = Append(@, "Note.create")]
    /\ nsignals' = [nsignals EXCEPT ![r] = Append(@, Response(201))]
    /\ npc' = [npc EXCEPT ![r] = "done"]
    /\ UNCHANGED nreq
    /\ UNCHANGED uvars

\* Note.findByIdAndUpdate(id, updateNote, {new: true}).populate('tags') runs,
\* then res.json(result) or next()
UpdateStep(r) ==
    /\ npc[r] = "updating"
    /\ ncalls' = [ncalls EXCEPT ![r] = Append(@, "Note.findByIdAndUpdate")]
    /\ IF NoteFindById(notes, nreq[r].id) # {}
       THEN LET doc == NoteDocument(nreq[r], clock + 1)
                coll == [notes EXCEPT ![nreq[r].id] = doc]
            IN /\ notes' = coll
               /\ clock' = clock + 1
               /\ nresult' = [nresult EXCEPT ![r] = <<Doc(coll, nreq[r].id, TRUE)>>]
               /\ nsignals' = [nsignals EXCEPT ![r] = Append(@, Response(200))]
       ELSE /\ nsignals' = [nsignals EXCEPT ![r] = Append(@, NextPlain)]
            /\ UNCHANGED <<notes, clock, nresult>>
    /\ npc' = [npc EXCEPT ![r] = "done"]
    /\ UNCHANGED <<createdBy, nreq>>
    /\ UNCHANGED uvars

\* router.delete('/:id'): the id is checked and Note.findOneAndRemove issued
Delete(r, q) ==
    /\ npc[r] = "idle"
    /\ AuthPasses(q)
    /\ q.method = "DELETE /:id"
    /\ nreq' = [nreq EXCEPT ![r] = q]
    /\ IF ~IsValidId(q.id)
       THEN /\ nsignals' = [nsignals EXCEPT ![r] = Append(@, NextErr(400))]
            /\ ncalls' = [ncalls EXCEPT ![r] = Entered]
            /\ npc' = [npc EXCEPT ![r] = "done"]
       ELSE /\ ncalls' = [ncalls EXCEPT ![r] = Entered \o <<"Note.findOneAndRemove">>]
            /\ npc' = [npc EXCEPT ![r] = "removing"]
            /\ UNCHANGED nsignals
    /\ UNCHANGED <<notes, createdBy, clock, nresult>>
    /\ UNCHANGED uvars

\* Note.findOneAndRemove runs, then res.sendStatus(204) or next()
RemoveStep(r) ==
    /\ npc[r] = "removing"
    /\ LET found == NoteFindOne(notes, nreq[r].id, nreq[r].user)
       IN IF found # {}
          THEN /\ notes' = [n \in DOMAIN notes \ found |-> notes[n]]
               /\ nsignals' = [nsignals EXCEPT ![r] = Append(@, Response(204))]
          ELSE /\ nsignals' = [nsignals EXCEPT ![r] = Append(@, NextPlain)]
               /\ UNCHANGED notes
    /\ npc' = [npc EXCEPT ![r] = "done"]
    /\ UNCHANGED <<createdBy, clock, nreq, ncalls, nresult>>
    /\ UNCHANGED uvars

-----------------------------------------------------------------------------
(* The requests tried                                                       *)

Methods == {"GET /", "GET /:id", "POST /", "PUT /:id", "DELETE /:id"}

T1 == Str(<<"A", "b">>)
T2 == Str(<<"b">>)
C1 == Str(<<"a">>)

OwnFolder(u) == IF u = "uA" THEN "fA" ELSE "fB"
OwnTag(u) == IF u = "uA" THEN "tA" ELSE "tB"
Other(u) == IF u = "uA" THEN "uB" ELSE "uA"

\* the folderId and tags of a body: none, the requester's own, another
\* user's, ids that are no ObjectIds, a repeated tag
References(u) ==
    {<<Undefined, <<>> >>,
     <<IdVal(OwnFolder(u)), <<OwnTag(u)>> >>,
     <<IdVal(OwnFolder(Other(u))), <<>> >>,
     <<Undefined, <<OwnTag(Other(u))>> >>,
     <<IdVal(OwnFolder(u)), <<OwnTag(u), OwnTag(Other(u))>> >>,
     <<IdVal(OwnFolder(Other(u))), <<OwnTag(Other(u))>> >>,
     <<IdVal(BadId), <<>> >>,
     <<Undefined, <<BadId>> >>,
     <<IdVal(OwnFolder(Other(u))), <<OwnTag(u), BadId, BadId>> >>,
     <<Undefined, <<OwnTag(u), OwnTag(u)>> >>}

\* what the second user sends along: none, or its own
FewReferences(u) ==
    {<<Undefined, <<>> >>,
     <<IdVal(OwnFolder(u)), <<OwnTag(u)>> >>}

\* one request of every method whose token does not verify
Unauthenticated ==
    {Request(m, FALSE, "uA", "n1", T1, C1, Undefined, <<>>, Undefined, Undefined, Undefined) :
        m \in Methods}

PostRequests ==
    {Request("POST /", TRUE, "uA", "", T1, C1, ref[1], ref[2], Undefined, Undefined, Undefined) :
        ref \in References("uA")}
    \cup
    {Request("POST /", TRUE, "uB", "", T1, C1, ref[1], ref[2], Undefined, Undefined, Undefined) :
        ref \in FewReferences("uB")}
    \cup
    {Request("POST /", TRUE, "uA", "", t, C1, IdVal("fB"), <<"tB">>, Undefined, Undefined, Undefined) :
        t \in {Undefined, Str(<<>>)}}

PutRequests ==
    {Request("PUT /:id", TRUE, "uB", "n1", T2, Undefined, ref[1], ref[2], Undefined, Undefined, Undefined) :
        ref \in References("uB")}
    \cup
    {Request("PUT /:id", TRUE, "uA", "n1", T2, Undefined, ref[1], ref[2], Undefined, Undefined, Undefined) :
        ref \in FewReferences("uA")}
    \cup
    {Request("PUT /:id", TRUE, "uB", BadId, T2, Undefined, IdVal("fA"), <<"tA">>, Undefined, Undefined, Undefined),
     Request("PUT /:id", TRUE, "uA", "n1", Str(<<>>), Undefined, IdVal("fB"), <<>>, Undefined, Undefined, Undefined),
     Request("PUT /:id", TRUE, "uA", "n2", Undefined, Undefined, Undefined, <<>>, Undefined, Undefined, Undefined)}

ByIdRequests(m) ==
    {Request(m, TRUE, who[1], who[2], Undefined, Undefined, Undefined, <<>>, Undefined, Undefined, Undefined) :
        who \in {<<"uA", "n1">>, <<"uB", "n1">>, <<"uA", "n2">>, <<"uB", BadId>>}}

ListRequests ==
    {Request("GET /", TRUE, u, "", Undefined, Undefined, Undefined, <<>>, Undefined, Undefined, Undefined) :
        u \in UserIds}

-----------------------------------------------------------------------------
(* The specifications                                                       *)

NotesInit ==
    /\ notes = <<>>
    /\ createdBy = <<>>
    /\ clock = 0
    /\ nreq = [r \in NoteReqs |-> NoRequest]
    /\ npc = [r \in NoteReqs |-> "idle"]
    /\ nsignals = [r \in NoteReqs |-> <<>>]
    /\ ncalls = [r \in NoteReqs |-> <<>>]
    /\ nresult = [r \in NoteReqs |-> <<>>]

Init == UsersInit /\ NotesInit

\* the notes router: a request of any method arrives with or without a token
\* that verifies, and the data-store operations of the requests in flight run
\* in any order
Next ==
    \E r \in NoteReqs :
        \/ \E q \in Unauthenticated : RejectUnauthenticated(r, q)
        \/ \E q \in ListRequests \cup Unauthenticated : GetAll(r, q)
        \/ \E q \in ByIdRequests("GET /:id") \cup Unauthenticated : GetOne(r, q)
        \/ \E q \in PostRequests \cup Unauthenticated : Post(r, q)
        \/ \E q \in PutRequests \cup Unauthenticated : Put(r, q)
        \/ \E q \in ByIdRequests("DELETE /:id") \cup Unauthenticated : Delete(r, q)
        \/ FindStep(r)
        \/ FindOneStep(r)
        \/ ValidateStep(r)
        \/ CreateStep(r)
        \/ UpdateStep(r)
        \/ RemoveStep(r)

Spec == Init /\ [][Next]_vars

\* the users router
NextUsers ==
    \E r \in UserReqs :
        \/ \E body \in UserBodies : PostUsers(r, body)
        \/ UserCountStep(r)
        \/ UserCreateStep(r)

SpecUsers == Init /\ [][NextUsers]_vars

-----------------------------------------------------------------------------
(* GET / over a store that holds notes of both users                        *)

\* the bodies of two POST / requests, of uA and of uB
SeedPosts(u) ==
    {Request("POST /", TRUE, u, "", T1, C1, IdVal(OwnFolder(u)), <<OwnTag(u)>>, Undefined, Undefined, Undefined),
     Request("POST /", TRUE, u, "", T2, IF u = "uA" THEN Undefined ELSE C1, Undefined, <<>>, Undefined, Undefined, Undefined)}

\* the stores two POST / requests leave, the first of uA, the second of uB
SeededStores ==
    {[n \in {NoteIdOf(1), NoteIdOf(2)} |->
         IF n = NoteIdOf(1) THEN NoteDocument(a, 1) ELSE NoteDocument(b, 2)] :
        a \in SeedPosts("uA"), b \in SeedPosts("uB")}

SearchInit ==
    /\ UsersInit
    /\ notes \in SeededStores
    /\ createdBy = [n \in {NoteIdOf(1), NoteIdOf(2)} |->
                        IF n = NoteIdOf(1) THEN "uA" ELSE "uB"]
    /\ clock = 2
    /\ nreq = [r \in NoteReqs |-> NoRequest]
    /\ npc = [r \in NoteReqs |-> "idle"]
    /\ nsignals = [r \in NoteReqs |-> <<>>]
    /\ ncalls = [r \in NoteReqs |-> <<>>]
    /\ nresult = [r \in NoteReqs |-> <<>>]

\* the queries: every combination of the three parameters for uA, a few for uB,
\* one with a folderId that is no ObjectId
SearchRequests ==
    {Request("GET /", TRUE, "uA", "", Undefined, Undefined, Undefined, <<>>, term, folder, tag) :
        term \in {Undefined, Str(<<>>), Str(<<"a">>), Str(<<".", "b">>)},
        folder \in {Undefined, IdVal("fA")},
        tag \in {Undefined, IdVal("tA")}}
    \cup
    {Request("GET /", TRUE, "uB", "", Undefined, Undefined, Undefined, <<>>, par[1], par[2], par[3]) :
        par \in {<<Undefined, Undefined, Undefined>>,
                 <<Str(<<"a">>), IdVal("fB"), IdVal("tB")>>,
                 <<Undefined, IdVal("fA"), Undefined>>,
                 <<Str(<<"B">>), Undefined, IdVal("tA")>>}}
    \cup
    {Request("GET /", TRUE, "uA", "", Undefined, Undefined, Undefined, <<>>, Undefined, IdVal(BadId), Undefined)}

\* the writes that go on beside the queries
SearchPosts ==
    {Request("POST /", TRUE, "uA", "", T2, C1, IdVal("fA"), <<>>, Undefined, Undefined, Undefined)}

SearchPuts ==
    {Request("PUT /:id", TRUE, "uB", "n1", T1, C1, IdVal("fB"), <<"tB">>, Undefined, Undefined, Undefined),
     Request("PUT /:id", TRUE, "uA", "n1", T2, Undefined, IdVal("fA"), <<"tA">>, Undefined, Undefined, Undefined)}

NextSearch ==
    \E r \in NoteReqs :
        \/ \E q \in SearchRequests : GetAll(r, q)
        \/ \E q \in SearchPosts : Post(r, q)
        \/ \E q \in SearchPuts : Put(r, q)
        \/ FindStep(r)
        \/ ValidateStep(r)
        \/ CreateStep(r)
        \/ UpdateStep(r)

SpecSearch == SearchInit /\ [][NextSearch]_vars

-----------------------------------------------------------------------------
(* Properties of POST /users, checked under SpecUsers                       *)

\* the registration has been received
Received(r) == upc[r] # "idle"

\* the request's outcomes all carry the status, and there is one at least
EndsWithStatus(r, status) ==
    /\ upc[r] = "done"
    /\ usignals[r] # <<>>
    /\ \A i \in 1..Len(usignals[r]) : usignals[r][i].status = status

\* the request stored a user
CreatedUser(r) == \E u \in users : u.id = r

\* the body's credentials are strings, and a full name it holds is one too
FieldsAreStrings(body) ==
    /\ IsString(body.username)
    /\ IsString(body.password)
    /\ body.fullname = Absent \/ IsString(body.fullname)

\* the string starts or ends with whitespace
HasOuterSpace(v) ==
    /\ IsString(v)
    /\ v.s # <<>>
    /\ v.s[1] = " " \/ v.s[Len(v.s)] = " "

\* a body valid but for the sizes of its credentials
WellFormed(body) ==
    /\ FieldsAreStrings(body)
    /\ ~HasOuterSpace(body.username)
    /\ ~HasOuterSpace(body.password)

\* C1: a registration whose username is shorter than 1 character or whose
\* password is shorter than 8 or longer than 72 characters (the fields being
\* valid otherwise) ends with status 422 and stores no user.
BadSizesRejected ==
    \A r \in UserReqs :
        (/\ Received(r)
         /\ WellFormed(ureq[r])
         /\ \/ Len(ureq[r].username.s) < 1
            \/ Len(ureq[r].password.s) < 8
            \/ Len(ureq[r].password.s) > 72)
        => /\ ~CreatedUser(r)
           /\ upc[r] = "done" => EndsWithStatus(r, 422)

\* C2: a registration in which username or password is missing, or a field
\* is present and no string, or username or password has leading or trailing
\* whitespace, ends with one error of status 422 handed to next, runs neither
\* the uniqueness lookup nor User.create, and stores no user.
MalformedFieldsRejected ==
    \A r \in UserReqs :
        (/\ Received(r)
         /\ \/ ureq[r].username = Absent
            \/ ureq[r].password = Absent
            \/ ~FieldsAreStrings(ureq[r])
            \/ HasOuterSpace(ureq[r].username)
            \/ HasOuterSpace(ureq[r].password))
        => /\ upc[r] = "done"
           /\ usignals[r] = <<NextErr(422)>>
           /\ ucalls[r] = {}
           /\ ~CreatedUser(r)

\* C2's case: a registration with a padded password was turned down while a
\* user registered by another request is stored
MalformedFieldsRejectedWitness ==
    \E r \in UserReqs :
        /\ upc[r] = "done"
        /\ IsString(ureq[r].username)
        /\ ~HasOuterSpace(ureq[r].username)
        /\ HasOuterSpace(ureq[r].password)
        /\ usignals[r] = <<NextErr(422)>>
        /\ \E u \in users : u.id # r

\* C3: no two stored users have the same username, and a registration for a
\* username stored by another request ends with status 422 and stores no user.
UsernamesUnique ==
    /\ \A u, v \in users : u.username = v.username => u = v
    /\ \A r \in UserReqs :
          (/\ upc[r] = "done"
           /\ WellFormed(ureq[r])
           /\ \E u \in users : u.id # r /\ u.username = ureq[r].username)
          => /\ EndsWithStatus(r, 422)
             /\ ~CreatedUser(r)

-----------------------------------------------------------------------------
(* Properties of the notes router, checked under Spec                       *)

\* the folder is one of the user's
OwnsFolder(u, folderId) == \E f \in Folders : f.id = folderId /\ f.userId = u

\* the tag is one of the user's
OwnsTag(u, tagId) == \E t \in Tags : t.id = tagId /\ t.userId = u

\* the stored note is the user's
OwnsNote(u, id) == id \in DOMAIN notes /\ notes[id].userId = u

\* the request is an authenticated one of the method and has been received
Handling(r, methods) ==
    /\ npc[r] # "idle"
    /\ nreq[r].token
    /\ nreq[r].method \in methods

\* the step taken is the one that runs the request's data-store operation
Completes(r, stage) == npc[r] = stage /\ npc'[r] = "done"

\* C4: a PUT /:id of a user for a note stored under another user leaves the
\* note as it is and ends in next() without an error; and every stored note
\* is owned by the user who created it.
ForeignPutChangesNothing ==
    [][/\ \A r \in NoteReqs :
            (Completes(r, "updating") /\ nreq[r].id \in DOMAIN notes
                /\ ~OwnsNote(nreq[r].user, nreq[r].id))
            => notes' = notes /\ nsignals'[r] = <<NextPlain>>
       /\ \A n \in DOMAIN notes' : notes'[n].userId = createdBy'[n]]_vars

\* C5: GET /:id and DELETE /:id with a well-formed id, when no note has the
\* id or the note is another user's, end in next() without an error, carry no
\* document and leave the notes as they are; when the note is the
\* requester's, GET answers with it and DELETE removes it (and it alone) and
\* answers 204.
NotFoundForMissingOrForeign ==
    [][\A r \in NoteReqs :
         /\ Completes(r, "findingOne") =>
               IF OwnsNote(nreq[r].user, nreq[r].id)
               THEN /\ notes' = notes
                    /\ nsignals'[r] = <<Response(200)>>
                    /\ Len(nresult'[r]) = 1
                    /\ nresult'[r][1].id = nreq[r].id
                    /\ nresult'[r][1].userId = nreq[r].user
               ELSE /\ notes' = notes
                    /\ nsignals'[r] = <<NextPlain>>
                    /\ nresult'[r] = <<>>
         /\ Completes(r, "removing") =>
               IF OwnsNote(nreq[r].user, nreq[r].id)
               THEN /\ DOMAIN notes' = DOMAIN notes \ {nreq[r].id}
                    /\ \A n \in DOMAIN notes' : notes'[n] = notes[n]
                    /\ nsignals'[r] = <<Response(204)>>
               ELSE /\ notes' = notes
                    /\ nsignals'[r] = <<NextPlain>>
                    /\ nresult'[r] = <<>>]_vars

\* C5's case: a DELETE /:id for a note that is stored under another user has
\* ended in next() without an error, and the note is still stored
NotFoundForMissingOrForeignWitness ==
    \E r \in NoteReqs :
        /\ npc[r] = "done" /\ nreq[r].token /\ nreq[r].method = "DELETE /:id"
        /\ nreq[r].id \in DOMAIN notes
        /\ notes[nreq[r].id].userId # nreq[r].user
        /\ "Note.findOneAndRemove" \in Range(ncalls[r])
        /\ nsignals[r] = <<NextPlain>>

\* C6: every stored note that has a folderId names a folder of the note's
\* user, and every tag id of its tags names a tag of the note's user.
ReferencesBelongToOwner ==
    \A n \in DOMAIN notes :
        /\ notes[n].folderId # Null => OwnsFolder(notes[n].userId, notes[n].folderId.id)
        /\ \A i \in 1..Len(notes[n].tags) : OwnsTag(notes[n].userId, notes[n].tags[i])

\* C6's case: a note with a folder and a tag that a PUT of another user than
\* its creator has written
ReferencesBelongToOwnerWitness ==
    \E n \in DOMAIN notes :
        /\ notes[n].folderId # Null
        /\ notes[n].tags # <<>>
        /\ notes[n].userId # createdBy[n]

\* the request's folderId or tags are no ObjectIds or name no folder or tag
\* of the requester
HasBadReference(q) ==
    \/ /\ Truthy(q.folderId)
       /\ ~IsValidId(q.folderId.id) \/ ~OwnsFolder(q.user, q.folderId.id)
    \/ \E i \in 1..Len(q.tags) :
          ~IsValidId(q.tags[i]) \/ ~OwnsTag(q.user, q.tags[i])

AuthenticationFirst ==
    \A r \in NoteReqs :
        npc[r] # "idle" =>
            /\ ncalls[r] # <<>>
            /\ ncalls[r][1] = "authenticate"
            /\ ~nreq[r].token =>
                  /\ npc[r] = "done"
                  /\ ncalls[r] = <<"authenticate">>
                  /\ nsignals[r] = <<NextErr(401)>>
                  /\ nresult[r] = <<>>

\* C9's case: a DELETE /:id without a valid token for a stored note was turned
\* down and the note is still there
AuthenticationFirstWitness ==
    \E r \in NoteReqs :
        /\ npc[r] = "done"
        /\ ~nreq[r].token
        /\ nreq[r].method = "DELETE /:id"
        /\ nreq[r].id \in DOMAIN notes
        /\ nsignals[r] = <<NextErr(401)>>

\* C10: a request signals at most one outcome, exactly one when it is done;
\* and a POST / whose tags hold an id that is no ObjectId runs neither of the
\* validators nor Note.create.
ExactlyOneOutcome ==
    \A r \in NoteReqs :
        /\ Len(nsignals[r]) <= 1
        /\ npc[r] = "done" => Len(nsignals[r]) = 1
        /\ (Handling(r, {"POST /"}) /\ BadIds(nreq[r].tags) # <<>>) =>
              /\ "validateFolderId" \notin Range(ncalls[r])
              /\ "validateTagIds" \notin Range(ncalls[r])
              /\ "Note.create" \notin Range(ncalls[r])

-----------------------------------------------------------------------------
(* Properties of GET /, checked under SpecSearch                            *)

\* C8: every note GET / returns is stored under the requester, and satisfies
\* each parameter supplied: the search term matches its title or content, its
\* folder is the folderId, its tags hold the tagId.
ListShowsOwnNotesOnly ==
    \A r \in NoteReqs :
        (Handling(r, {"GET /"}) /\ npc[r] = "done") =>
            \A i \in 1..Len(nresult[r]) :
                /\ nresult[r][i].userId = nreq[r].user
                /\ Truthy(nreq[r].searchTerm) =>
                      \/ RegexMatches(nreq[r].searchTerm.s, nresult[r][i].title)
                      \/ RegexMatches(nreq[r].searchTerm.s, nresult[r][i].content)
                /\ Truthy(nreq[r].qFolderId) =>
                      nresult[r][i].folderId = nreq[r].qFolderId
                /\ Truthy(nreq[r].qTagId) =>
                      \E j \in 1..Len(nresult[r][i].tags) :
                          nresult[r][i].tags[j].id = nreq[r].qTagId.id

\* C8's case: a GET / with all three parameters has returned a note, while a
\* note of another user whose text matches the search term is stored
ListShowsOwnNotesOnlyWitness ==
    \E r \in NoteReqs :
        /\ Handling(r, {"GET /"}) /\ npc[r] = "done"
        /\ Truthy(nreq[r].searchTerm)
        /\ Truthy(nreq[r].qFolderId)
        /\ Truthy(nreq[r].qTagId)
        /\ nresult[r] # <<>>
        /\ \E n \in DOMAIN notes :
              /\ notes[n].userId # nreq[r].user
              /\ RegexMatches(nreq[r].searchTerm.s, notes[n].title)

====
